---- MODULE Spec2Model ----
(***************************************************************************)
(* Model of link-checker.py (class LinkChecker) of wiki-scripts: the      *)
(* ordered pipeline of rewrite rules that update_page applies to every    *)
(* wikilink of a page, and the drivers process_page / _edit around it.    *)
(*                                                                         *)
(* Strings are sequences of one-character strings.  The value None of an  *)
(* optional string is the one-element sequence None, which no string of   *)
(* the model's alphabet equals.                                           *)
(***************************************************************************)
EXTENDS Integers, Sequences, FiniteSets, TLC

None == <<"None">>

(***************************************************************************)
(* Python str primitives                                                   *)
(***************************************************************************)
Whitespace == {" ", "\n"}

RECURSIVE lstrip(_)
lstrip(s) ==
    IF s = <<>> THEN <<>>
    ELSE IF Head(s) \in Whitespace THEN lstrip(Tail(s)) ELSE s

RECURSIVE rstrip(_)
rstrip(s) ==
    IF s = <<>> THEN <<>>
    ELSE IF s[Len(s)] \in Whitespace THEN rstrip(SubSeq(s, 1, Len(s) - 1)) ELSE s

strip(s) == lstrip(rstrip(s))

startswith(s, c) == s # <<>> /\ s[1] = c

endswith(s, c) == s # <<>> /\ s[Len(s)] = c

\* s[1:]
SliceFrom1(s) == IF s = <<>> THEN <<>> ELSE Tail(s)

UpperChar(c) ==
    CASE c = "a" -> "A"
      [] c = "b" -> "B"
      [] c = "c" -> "C"
      [] c = "d" -> "D"
      [] c = "p" -> "P"
      [] c = "s" -> "S"
      [] c = "w" -> "W"
      [] OTHER -> c

LowerChar(c) ==
    CASE c = "A" -> "a"
      [] c = "B" -> "b"
      [] c = "C" -> "c"
      [] c = "D" -> "d"
      [] c = "P" -> "p"
      [] c = "S" -> "s"
      [] c = "W" -> "w"
      [] OTHER -> c

\* str.lower()
RECURSIVE lower(_)
lower(s) == IF s = <<>> THEN <<>> ELSE <<LowerChar(Head(s))>> \o lower(Tail(s))

\* str.replace("_", " ")
RECURSIVE ReplaceUnderscores(_)
ReplaceUnderscores(s) ==
    IF s = <<>> THEN <<>>
    ELSE <<IF Head(s) = "_" THEN " " ELSE Head(s)>> \o ReplaceUnderscores(Tail(s))

\* position of the first occurrence of c in s, 0 when there is none
RECURSIVE FindFrom(_, _, _)
FindFrom(s, c, i) ==
    IF i > Len(s) THEN 0
    ELSE IF s[i] = c THEN i ELSE FindFrom(s, c, i + 1)

find(s, c) == FindFrom(s, c, 1)

RECURSIVE Concat(_)
Concat(ss) == IF ss = <<>> THEN <<>> ELSE Head(ss) \o Concat(Tail(ss))

(***************************************************************************)
(* ws.parser_helpers.title: canonicalize and Title                         *)
(***************************************************************************)
\* canonicalize(title): underscores and spaces are interchangeable, the
\* result is trimmed and its first character is folded to upper case
canonicalize(s) ==
    LET t == strip(ReplaceUnderscores(s))
    IN  IF t = <<>> THEN <<>> ELSE <<UpperChar(t[1])>> \o Tail(t)

\* api.interwikimap: the prefixes that lead to another wiki
interwikimap == {<<"d">>, <<"w">>}

\* api.interlanguagemap: the interwiki prefixes that are language links
interlanguagemap == {<<"d">>}

\* api.namespaces: the names of the namespaces other than the main one
namespaces == {<<"C">>}

\* the name of the category namespace ("Category", one letter in this alphabet)
Category == <<"C">>

\* the page name that the interactive rules refuse to touch
WpaSupplicant == <<"W", "p", "a", " ", "s", "u", "p", "p", "l", "i", "c", "a", "n", "t">>

\* Title.parse(full_title): the fields of a parsed title
ParseTitle(raw) ==
    LET h       == find(raw, "#")
        page    == IF h = 0 THEN raw ELSE SubSeq(raw, 1, h - 1)
        section == IF h = 0 THEN None ELSE SubSeq(raw, h + 1, Len(raw))
        c1      == find(page, ":")
        pre1    == IF c1 = 0 THEN <<>> ELSE lower(strip(ReplaceUnderscores(SubSeq(page, 1, c1 - 1))))
        isIw    == c1 > 0 /\ pre1 \in interwikimap
        rest1   == IF isIw THEN SubSeq(page, c1 + 1, Len(page)) ELSE page
        c2      == find(rest1, ":")
        pre2    == IF c2 = 0 THEN <<>> ELSE canonicalize(SubSeq(rest1, 1, c2 - 1))
        isNs    == c2 > 0 /\ pre2 \in namespaces
        rest2   == IF isNs THEN SubSeq(rest1, c2 + 1, Len(rest1)) ELSE rest1
    IN  [iw          |-> IF isIw THEN pre1 ELSE None,
         namespace   |-> IF isNs THEN pre2 ELSE <<>>,
         pagename    |-> canonicalize(rest2),
         sectionname |-> section]

\* Title(api, title)
Title(raw) == ParseTitle(raw)

\* Title.fullpagename: "namespace:pagename", or the page name alone in the
\* main namespace; empty for a section-only link
fullpagename(t) ==
    IF t.namespace # <<>> THEN t.namespace \o <<":">> \o t.pagename ELSE t.pagename

\* Title.iwprefix
iwprefix(t) == t.iw

\* Python truthiness of an optional string
Truthy(s) == s # None /\ s # <<>>

\* dict.get(key): the value, or None
Get(d, k) == IF k \in DOMAIN d THEN d[k] ELSE None

(***************************************************************************)
(* LinkChecker: the rules.  self is the record of the fields set by        *)
(* __init__ (interactive, redirects, displaytitles); wikilink is the       *)
(* record [title, text] of a Wikilink node; title is the parsed Title the  *)
(* rules share.  A rule returns the objects it may have mutated.           *)
(***************************************************************************)
\* check_trivial with the bug of comparing the strings as they are written
check_trivial_uncanonical(wikilink) ==
    IF wikilink.text # None /\ wikilink.title = wikilink.text
    THEN [title |-> wikilink.text, text |-> None]
    ELSE wikilink

\* check_trivial(wikilink)
check_trivial(wikilink) ==
    IF wikilink.text # None /\ canonicalize(wikilink.title) = canonicalize(wikilink.text)
    THEN [title |-> wikilink.text, text |-> None]
    ELSE wikilink

\* check_relative with the bug of not looking the target up in the redirects
check_relative_unresolved(self, wikilink, title, srcpage) ==
    IF Truthy(iwprefix(title)) \/ ~Truthy(title.sectionname)
    THEN [wikilink |-> wikilink, title |-> title]
    ELSE IF canonicalize(srcpage) = fullpagename(title)
         THEN LET new == <<"#">> \o title.sectionname
              IN  [wikilink |-> [wikilink EXCEPT !.title = new],
                   title    |-> ParseTitle(new)]
         ELSE [wikilink |-> wikilink, title |-> title]

\* check_relative(wikilink, title, srcpage)
check_relative(self, wikilink, title, srcpage) ==
    IF Truthy(iwprefix(title)) \/ ~Truthy(title.sectionname)
    THEN [wikilink |-> wikilink, title |-> title]
    ELSE LET target == Get(self.redirects, fullpagename(title))
             _title == IF Truthy(target)
                       THEN [Title(target) EXCEPT !.sectionname = title.sectionname]
                       ELSE title
         IN  IF canonicalize(srcpage) = fullpagename(_title)
             THEN LET new == <<"#">> \o _title.sectionname
                  IN  [wikilink |-> [wikilink EXCEPT !.title = new],
                       title    |-> ParseTitle(new)]
             ELSE [wikilink |-> wikilink, title |-> title]

\* the three branches of check_redirect_exact that collapse the link
Collapse(wikilink) ==
    [wikilink |-> [title |-> wikilink.text, text |-> None],
     title    |-> ParseTitle(wikilink.text)]

\* check_redirect_exact with the bug of lacking its last branch, the display
\* text alone being a redirect
check_redirect_exact_one_sided(self, wikilink, title) ==
    LET same == [wikilink |-> wikilink, title |-> title]
    IN  IF wikilink.text = None THEN same
        ELSE LET text    == Title(wikilink.text)
                 target1 == Get(self.redirects, fullpagename(title))
                 target2 == Get(self.redirects, fullpagename(text))
             IN  IF Truthy(title.sectionname) \/ Truthy(text.sectionname) THEN same
                 ELSE IF target1 # None /\ target2 # None
                      THEN IF target1 = target2 THEN Collapse(wikilink) ELSE same
                 ELSE IF target1 # None
                      THEN IF target1 = fullpagename(text) THEN Collapse(wikilink) ELSE same
                 ELSE same

\* check_redirect_exact(wikilink, title)
check_redirect_exact(self, wikilink, title) ==
    LET same == [wikilink |-> wikilink, title |-> title]
    IN  IF wikilink.text = None THEN same
        ELSE LET text    == Title(wikilink.text)
                 target1 == Get(self.redirects, fullpagename(title))
                 target2 == Get(self.redirects, fullpagename(text))
             IN  IF Truthy(title.sectionname) \/ Truthy(text.sectionname) THEN same
                 ELSE IF target1 # None /\ target2 # None
                      THEN IF target1 = target2 THEN Collapse(wikilink) ELSE same
                 ELSE IF target1 # None
                      THEN IF target1 = fullpagename(text) THEN Collapse(wikilink) ELSE same
                 ELSE IF target2 # None
                      THEN IF target2 = fullpagename(title) THEN Collapse(wikilink) ELSE same
                 ELSE same

\* check_redirect_capitalization with the bug of losing the section
check_redirect_capitalization_sectionless(self, wikilink, title) ==
    LET same   == [wikilink |-> wikilink, title |-> title]
        target == Get(self.redirects, fullpagename(title))
    IN  IF self.interactive = FALSE THEN same
        ELSE IF title.pagename = WpaSupplicant THEN same
        ELSE IF fullpagename(title) # <<>>
                /\ target # None
                /\ lower(target) = lower(fullpagename(title))
             THEN [wikilink |-> [wikilink EXCEPT !.title = target],
                   title    |-> ParseTitle(target)]
             ELSE same

\* check_redirect_capitalization with the bug of running in either mode
check_redirect_capitalization_ungated(self, wikilink, title) ==
    LET same   == [wikilink |-> wikilink, title |-> title]
        target == Get(self.redirects, fullpagename(title))
    IN  IF title.pagename = WpaSupplicant THEN same
        ELSE IF fullpagename(title) # <<>>
                /\ target # None
                /\ lower(target) = lower(fullpagename(title))
             THEN LET new == IF Truthy(title.sectionname)
                             THEN target \o <<"#">> \o title.sectionname
                             ELSE target
                  IN  [wikilink |-> [wikilink EXCEPT !.title = new],
                       title    |-> ParseTitle(new)]
             ELSE same

\* check_redirect_capitalization(wikilink, title)
check_redirect_capitalization(self, wikilink, title) ==
    LET same   == [wikilink |-> wikilink, title |-> title]
        target == Get(self.redirects, fullpagename(title))
    IN  IF self.interactive = FALSE THEN same
        ELSE IF title.pagename = WpaSupplicant THEN same
        ELSE IF fullpagename(title) # <<>>
                /\ target # None
                /\ lower(target) = lower(fullpagename(title))
             THEN LET new == IF Truthy(title.sectionname)
                             THEN target \o <<"#">> \o title.sectionname
                             ELSE target
                  IN  [wikilink |-> [wikilink EXCEPT !.title = new],
                       title    |-> ParseTitle(new)]
             ELSE same

\* str(wikilink)
StrWikilink(wikilink) ==
    IF wikilink.text # None
    THEN <<"[[">> \o wikilink.title \o <<"|">> \o wikilink.text \o <<"]]">>
    ELSE <<"[[">> \o wikilink.title \o <<"]]">>

\* check_displaytitle with the bug of testing the category namespace before
\* the lookup in self.displaytitles
check_displaytitle_category_first(self, wikilink, title) ==
    LET same == [wikilink |-> wikilink, title |-> title, log |-> <<>>]
    IN  IF self.interactive = FALSE THEN same
        ELSE IF wikilink.text # None THEN same
        ELSE IF Truthy(iwprefix(title)) THEN same
        ELSE IF fullpagename(title) = <<>> THEN same
        ELSE IF title.namespace = Category THEN same
        ELSE IF fullpagename(title) \notin DOMAIN self.displaytitles
             THEN [same EXCEPT !.log = <<StrWikilink(wikilink)>>]
        ELSE IF title.pagename = WpaSupplicant THEN same
        ELSE LET dt  == self.displaytitles[fullpagename(title)]
                 new == IF Truthy(title.sectionname)
                        THEN dt \o <<"#">> \o title.sectionname
                        ELSE dt
             IN  IF SliceFrom1(wikilink.title) # SliceFrom1(new)
                 THEN [wikilink |-> [wikilink EXCEPT !.title = new],
                       title    |-> ParseTitle(new),
                       log      |-> <<>>]
                 ELSE same

\* check_displaytitle with the bug of lacking the test of the display text
check_displaytitle_alternative(self, wikilink, title) ==
    LET same == [wikilink |-> wikilink, title |-> title, log |-> <<>>]
    IN  IF self.interactive = FALSE THEN same
        ELSE IF Truthy(iwprefix(title)) THEN same
        ELSE IF fullpagename(title) = <<>> THEN same
        ELSE IF fullpagename(title) \notin DOMAIN self.displaytitles
             THEN [same EXCEPT !.log = <<StrWikilink(wikilink)>>]
        ELSE IF title.namespace = Category THEN same
        ELSE IF title.pagename = WpaSupplicant THEN same
        ELSE LET dt  == self.displaytitles[fullpagename(title)]
                 new == IF Truthy(title.sectionname)
                        THEN dt \o <<"#">> \o title.sectionname
                        ELSE dt
             IN  IF SliceFrom1(wikilink.title) # SliceFrom1(new)
                 THEN [wikilink |-> [wikilink EXCEPT !.title = new],
                       title    |-> ParseTitle(new),
                       log      |-> <<>>]
                 ELSE same

\* check_displaytitle with the bug of lacking the test of the full page name
check_displaytitle_relative(self, wikilink, title) ==
    LET same == [wikilink |-> wikilink, title |-> title, log |-> <<>>]
    IN  IF self.interactive = FALSE THEN same
        ELSE IF wikilink.text # None THEN same
        ELSE IF Truthy(iwprefix(title)) THEN same
        ELSE IF fullpagename(title) \notin DOMAIN self.displaytitles
             THEN [same EXCEPT !.log = <<StrWikilink(wikilink)>>]
        ELSE IF title.namespace = Category THEN same
        ELSE IF title.pagename = WpaSupplicant THEN same
        ELSE LET dt  == self.displaytitles[fullpagename(title)]
                 new == IF Truthy(title.sectionname)
                        THEN dt \o <<"#">> \o title.sectionname
                        ELSE dt
             IN  IF SliceFrom1(wikilink.title) # SliceFrom1(new)
                 THEN [wikilink |-> [wikilink EXCEPT !.title = new],
                       title    |-> ParseTitle(new),
                       log      |-> <<>>]
                 ELSE same

\* check_displaytitle with the bug of composing the new target without the
\* section
check_displaytitle_sectionless(self, wikilink, title) ==
    LET same == [wikilink |-> wikilink, title |-> title, log |-> <<>>]
    IN  IF self.interactive = FALSE THEN same
        ELSE IF wikilink.text # None THEN same
        ELSE IF Truthy(iwprefix(title)) THEN same
        ELSE IF fullpagename(title) = <<>> THEN same
        ELSE IF fullpagename(title) \notin DOMAIN self.displaytitles
             THEN [same EXCEPT !.log = <<StrWikilink(wikilink)>>]
        ELSE IF title.namespace = Category THEN same
        ELSE IF title.pagename = WpaSupplicant THEN same
        ELSE LET new == self.displaytitles[fullpagename(title)]
             IN  IF SliceFrom1(wikilink.title) # SliceFrom1(new)
                 THEN [wikilink |-> [wikilink EXCEPT !.title = new],
                       title    |-> ParseTitle(new),
                       log      |-> <<>>]
                 ELSE same

\* check_displaytitle with the bug of comparing the whole strings
check_displaytitle_whole(self, wikilink, title) ==
    LET same == [wikilink |-> wikilink, title |-> title, log |-> <<>>]
    IN  IF self.interactive = FALSE THEN same
        ELSE IF wikilink.text # None THEN same
        ELSE IF Truthy(iwprefix(title)) THEN same
        ELSE IF fullpagename(title) = <<>> THEN same
        ELSE IF fullpagename(title) \notin DOMAIN self.displaytitles
             THEN [same EXCEPT !.log = <<StrWikilink(wikilink)>>]
        ELSE IF title.namespace = Category THEN same
        ELSE IF title.pagename = WpaSupplicant THEN same
        ELSE LET dt  == self.displaytitles[fullpagename(title)]
                 new == IF Truthy(title.sectionname)
                        THEN dt \o <<"#">> \o title.sectionname
                        ELSE dt
             IN  IF wikilink.title # new
                 THEN [wikilink |-> [wikilink EXCEPT !.title = new],
                       title    |-> ParseTitle(new),
                       log      |-> <<>>]
                 ELSE same

\* check_displaytitle with the bug of returning on a missing page without
\* the call of logger.warning
check_displaytitle_silent(self, wikilink, title) ==
    LET same == [wikilink |-> wikilink, title |-> title, log |-> <<>>]
    IN  IF self.interactive = FALSE THEN same
        ELSE IF wikilink.text # None THEN same
        ELSE IF Truthy(iwprefix(title)) THEN same
        ELSE IF fullpagename(title) = <<>> THEN same
        ELSE IF fullpagename(title) \notin DOMAIN self.displaytitles THEN same
        ELSE IF title.namespace = Category THEN same
        ELSE IF title.pagename = WpaSupplicant THEN same
        ELSE LET dt  == self.displaytitles[fullpagename(title)]
                 new == IF Truthy(title.sectionname)
                        THEN dt \o <<"#">> \o title.sectionname
                        ELSE dt
             IN  IF SliceFrom1(wikilink.title) # SliceFrom1(new)
                 THEN [wikilink |-> [wikilink EXCEPT !.title = new],
                       title    |-> ParseTitle(new),
                       log      |-> <<>>]
                 ELSE same

\* check_displaytitle with the bug of lacking the test of the category
\* namespace
check_displaytitle_categories(self, wikilink, title) ==
    LET same == [wikilink |-> wikilink, title |-> title, log |-> <<>>]
    IN  IF self.interactive = FALSE THEN same
        ELSE IF wikilink.text # None THEN same
        ELSE IF Truthy(iwprefix(title)) THEN same
        ELSE IF fullpagename(title) = <<>> THEN same
        ELSE IF fullpagename(title) \notin DOMAIN self.displaytitles
             THEN [same EXCEPT !.log = <<StrWikilink(wikilink)>>]
        ELSE IF title.pagename = WpaSupplicant THEN same
        ELSE LET dt  == self.displaytitles[fullpagename(title)]
                 new == IF Truthy(title.sectionname)
                        THEN dt \o <<"#">> \o title.sectionname
                        ELSE dt
             IN  IF SliceFrom1(wikilink.title) # SliceFrom1(new)
                 THEN [wikilink |-> [wikilink EXCEPT !.title = new],
                       title    |-> ParseTitle(new),
                       log      |-> <<>>]
                 ELSE same

\* check_displaytitle(wikilink, title); log is what logger.warning received
check_displaytitle(self, wikilink, title) ==
    LET same == [wikilink |-> wikilink, title |-> title, log |-> <<>>]
    IN  IF self.interactive = FALSE THEN same
        ELSE IF wikilink.text # None THEN same
        ELSE IF Truthy(iwprefix(title)) THEN same
        ELSE IF fullpagename(title) = <<>> THEN same
        ELSE IF fullpagename(title) \notin DOMAIN self.displaytitles
             THEN [same EXCEPT !.log = <<StrWikilink(wikilink)>>]
        ELSE IF title.namespace = Category THEN same
        ELSE IF title.pagename = WpaSupplicant THEN same
        ELSE LET dt  == self.displaytitles[fullpagename(title)]
                 new == IF Truthy(title.sectionname)
                        THEN dt \o <<"#">> \o title.sectionname
                        ELSE dt
             IN  IF SliceFrom1(wikilink.title) # SliceFrom1(new)
                 THEN [wikilink |-> [wikilink EXCEPT !.title = new],
                       title    |-> ParseTitle(new),
                       log      |-> <<>>]
                 ELSE same

\* collapse_whitespace_pipe with the bug of writing the display text in its
\* canonical form
collapse_whitespace_pipe_canonical(wikilink) ==
    IF wikilink.text # None
    THEN [title |-> rstrip(wikilink.title), text |-> canonicalize(wikilink.text)]
    ELSE wikilink

\* collapse_whitespace_pipe(wikilink)
collapse_whitespace_pipe(wikilink) ==
    IF wikilink.text # None
    THEN [title |-> rstrip(wikilink.title), text |-> lstrip(wikilink.text)]
    ELSE wikilink

(***************************************************************************)
(* mwparserfromhell: a Wikicode is a sequence of nodes, each a Text node   *)
(* [type, value] or a Wikilink node [type, title, text].  The text of a    *)
(* page is a sequence of characters in which "[[", "]]" and "|" are the    *)
(* link delimiters.                                                        *)
(***************************************************************************)
TextNode(v) == [type |-> "Text", value |-> v]

WikilinkNode(w) == [type |-> "Wikilink", title |-> w.title, text |-> w.text]

\* the [title, text] record of a Wikilink node
LinkOf(node) == [title |-> node.title, text |-> node.text]

\* str(node)
StrNode(node) ==
    IF node.type = "Text" THEN node.value ELSE StrWikilink(LinkOf(node))

\* str(wikicode)
RECURSIVE StrWikicode(_)
StrWikicode(nodes) ==
    IF nodes = <<>> THEN <<>> ELSE StrNode(Head(nodes)) \o StrWikicode(Tail(nodes))

\* the tokenizer: the nodes of a text, adjacent characters outside links not
\* yet merged.  "[[" opens a link when a "]]" follows and the title part has
\* neither a newline nor another "[["; otherwise it is plain text.
RECURSIVE Tokenize(_)
Tokenize(s) ==
    IF s = <<>> THEN <<>>
    ELSE LET close == find(s, "]]")
             inner == SubSeq(s, 2, close - 1)
             pipe  == find(inner, "|")
             title == IF pipe = 0 THEN inner ELSE SubSeq(inner, 1, pipe - 1)
             text  == IF pipe = 0 THEN None ELSE SubSeq(inner, pipe + 1, Len(inner))
         IN  IF Head(s) = "[[" /\ close > 0
                /\ find(title, "\n") = 0 /\ find(inner, "[[") = 0
             THEN <<WikilinkNode([title |-> title, text |-> text])>>
                  \o Tokenize(SubSeq(s, close + 1, Len(s)))
             ELSE <<TextNode(<<Head(s)>>)>> \o Tokenize(Tail(s))

\* adjacent Text nodes are one Text node
RECURSIVE MergeText(_)
MergeText(nodes) ==
    IF Len(nodes) < 2 THEN nodes
    ELSE IF nodes[1].type = "Text" /\ nodes[2].type = "Text"
         THEN MergeText(<<TextNode(nodes[1].value \o nodes[2].value)>>
                        \o SubSeq(nodes, 3, Len(nodes)))
         ELSE <<nodes[1]>> \o MergeText(Tail(nodes))

\* mwparserfromhell.parse(text)
Parse(text) == MergeText(Tokenize(text))

\* Wikicode.get(index) with Python's indexing: index counts from 0 and a
\* negative index counts from the end.  The position (from 1) of the node
\* that is returned, 0 where Python raises IndexError.
PyIndex(nodes, index) ==
    IF index >= 0
    THEN IF index < Len(nodes) THEN index + 1 ELSE 0
    ELSE IF -index <= Len(nodes) THEN Len(nodes) + index + 1 ELSE 0

\* _get_text(index) of collapse_whitespace: the Text node there, or None
_get_text(parent, index) ==
    LET p == PyIndex(parent, index)
    IN  IF p = 0 THEN None
        ELSE IF parent[p].type # "Text" THEN None ELSE parent[p].value

\* collapse_whitespace(wikicode, wikilink): index is parent.index(wikilink),
\* counted from 0; the result is the wikilink
collapse_whitespace(wikicode, index) ==
    LET wikilink == LinkOf(wikicode[index + 1])
        prev     == _get_text(wikicode, index - 1)
        next_    == _get_text(wikicode, index)
        w1       == IF prev # None /\ (endswith(prev, " ") \/ endswith(prev, "\n"))
                    THEN [wikilink EXCEPT !.title = lstrip(wikilink.title)]
                    ELSE wikilink
    IN  IF next_ # None /\ (startswith(next_, " ") \/ endswith(next_, "\n"))
        THEN IF w1.text # None
             THEN [w1 EXCEPT !.text = rstrip(w1.text)]
             ELSE [w1 EXCEPT !.title = rstrip(w1.title)]
        ELSE w1

\* the body of the loop of update_page for the Wikilink node at position pos
\* (from 1): the wikicode afterwards and what was logged
LoopBody(self, title, wikicode, pos) ==
    LET w0       == LinkOf(wikicode[pos])
        wl_title == Title(w0.title)
    IN  IF wl_title.iw \in interlanguagemap
        THEN [wikicode |-> wikicode, log |-> <<>>]
        ELSE LET w1  == collapse_whitespace_pipe(w0)
                 w2  == check_trivial(w1)
                 r3  == check_relative(self, w2, wl_title, title)
                 r4  == check_redirect_exact(self, r3.wikilink, r3.title)
                 r5  == check_redirect_capitalization(self, r4.wikilink, r4.title)
                 r6  == check_displaytitle(self, r5.wikilink, r5.title)
                 wc6 == [wikicode EXCEPT ![pos] = WikilinkNode(r6.wikilink)]
                 w7  == collapse_whitespace(wc6, pos - 1)
             IN  [wikicode |-> [wikicode EXCEPT ![pos] = WikilinkNode(w7)],
                  log      |-> r6.log]

\* ifilter_wikilinks: the position of the first Wikilink node after position
\* pos, 0 when there is none
RECURSIVE NextWikilink(_, _)
NextWikilink(wikicode, pos) ==
    IF pos >= Len(wikicode) THEN 0
    ELSE IF wikicode[pos + 1].type = "Wikilink" THEN pos + 1
         ELSE NextWikilink(wikicode, pos + 1)

RECURSIVE Loop(_, _, _, _, _)
Loop(self, title, wikicode, pos, log) ==
    LET n == NextWikilink(wikicode, pos)
    IN  IF n = 0 THEN [wikicode |-> wikicode, log |-> log]
        ELSE LET r == LoopBody(self, title, wikicode, n)
             IN  Loop(self, title, r.wikicode, n, log \o r.log)

\* update_page(title, text): the updated content and the warnings logged
update_page(self, title, text) ==
    LET r == Loop(self, title, Parse(text), 0, <<>>)
    IN  [text |-> StrWikicode(r.wikicode), log |-> r.log]

(***************************************************************************)
(* The inputs: a small wiki                                                *)
(***************************************************************************)
\* the most blanks that pad the target and the display text of one link
MaxPad == 1

\* the most entries of a redirect table
MaxRedirects == 2

\* the most links of a page
MaxLinks == 2

RECURSIVE Blanks(_)
Blanks(n) == IF n = 0 THEN <<>> ELSE <<" ">> \o Blanks(n - 1)

\* the pages of the main namespace, by full page name
MainPages == {<<"B">>, <<"A", " ", "b">>, <<"A", " ", "B">>}

\* a page of the category namespace
CategoryPage == <<"C", ":", "B">>

\* the ways a link spells a page of the main namespace; the empty spelling
\* is that of a link to a section of the page it is on
MainSpellings == MainPages \cup {<<"b">>, <<"a", "_", "b">>, <<>>}

\* the same with the links to the category namespace, to another language
\* (prefix d) and to another wiki (prefix w)
Spellings == MainSpellings \cup {CategoryPage, <<"d", ":", "B">>, <<"w", ":", "B">>}

Sections == {<<>>, <<"#", "s">>}

\* the links without padding: any target, with any display text that
\* spells a page of the main namespace or with none
PlainWikilinks ==
    {[title |-> p \o s, text |-> None] : p \in Spellings, s \in Sections} \cup
    {[title |-> p \o s, text |-> q \o t] :
        p \in Spellings, s \in Sections, q \in MainSpellings, t \in Sections}

\* the links that are padded with at most MaxPad blanks in all
PaddedTargets == {<<"B">>, <<"a", "_", "b", "#", "s">>}

PaddedTexts == {<<"b">>, <<"A", " ", "B">>, <<"A", " ", "b", "#", "s">>}

PaddedWikilinks ==
    {[title |-> Blanks(l) \o p \o Blanks(r), text |-> None] :
        p \in PaddedTargets, l \in 0..MaxPad, r \in 0..MaxPad} \cup
    {[title |-> Blanks(l) \o p \o Blanks(r), text |-> Blanks(m) \o q \o Blanks(n)] :
        p \in PaddedTargets, q \in PaddedTexts,
        l \in 0..MaxPad, r \in 0..MaxPad, m \in 0..MaxPad, n \in 0..MaxPad}

TotalPad(w) ==
    LET blanks(s) == Len(s) - Len(strip(s))
    IN  blanks(w.title) + IF w.text = None THEN 0 ELSE blanks(w.text)

\* the links of the pages that have several links
CoreWikilinks ==
    {[title |-> <<"B">>, text |-> None],
     [title |-> <<"a", "_", "b", "#", "s">>, text |-> None],
     [title |-> <<"d", ":", "B">>, text |-> <<" ", "b">>],
     [title |-> <<"B">>, text |-> <<"A", " ", "b">>],
     [title |-> <<" ", "A", " ", "b", " ">>, text |-> <<" ", "a", "_", "b", " ">>]}

\* links whose target and display text spell the same section with an
\* underscore and with a blank
SectionWikilinks ==
    {[title |-> <<"B", "#", "s", "_", "s">>, text |-> <<"b", "#", "s", " ", "s">>],
     [title |-> <<"A", " ", "b", "#", "s", "_", "s">>,
      text  |-> <<"a", "_", "b", "#", "s", " ", "s">>]}

\* the title of the page process_page is called with
Titles == {<<"A", " ", "b">>}

\* the text before a link
Texts == {<<"x">>, <<" ", "x", " ">>, <<"\n">>}

\* the text after a link
TextsAfter == {<<" ", "x", " ">>}

\* api.redirects_map(): every entry leads to its final target, a page that
\* is not itself a redirect
RedirectTables ==
    UNION {[K -> MainPages \ K] :
           K \in {K \in SUBSET MainPages : Cardinality(K) <= MaxRedirects}}

AllPages == MainPages \cup {CategoryPage}

\* the styles of display title: the title itself, or the title with a small
\* first letter and underscores for blanks
Styles == {"title", "lower_"}

RECURSIVE ReplaceBlanks(_)
ReplaceBlanks(s) ==
    IF s = <<>> THEN <<>>
    ELSE <<IF Head(s) = " " THEN "_" ELSE Head(s)>> \o ReplaceBlanks(Tail(s))

DisplayTitle(page, style) ==
    LET t    == Title(page)
        name == ReplaceBlanks(<<LowerChar(Head(t.pagename))>> \o Tail(t.pagename))
    IN  IF style = "title" THEN page
        ELSE IF t.namespace # <<>> THEN t.namespace \o <<":">> \o name ELSE name

\* the pages the allpages generator lists, with the displaytitle of each: a
\* display title is a spelling of the page's own title
DisplayTables ==
    {[page \in E |-> DisplayTitle(page, style)] :
        E \in {{}, MainPages, AllPages}, style \in Styles}

\* the Wikicode of one link with or without text after it and before it
Around(w, before, after) ==
    (IF before = None THEN <<>> ELSE <<TextNode(before)>>)
    \o <<WikilinkNode(w)>>
    \o (IF after = None THEN <<>> ELSE <<TextNode(after)>>)

\* the Wikicodes of n links of CoreWikilinks, each followed by the text
\* after, or by no text when after is None
RECURSIVE Chains(_, _)
Chains(n, after) ==
    IF n = 0 THEN {<<>>}
    ELSE {Around(w, None, after) \o c : w \in CoreWikilinks, c \in Chains(n - 1, after)}

\* the Wikicodes of the pages of the wiki: no link; one link without
\* padding; one padded link in any surroundings; 2..MaxLinks links
Wikicodes ==
    {<<>>} \cup {<<TextNode(t)>> : t \in Texts}
    \cup {<<WikilinkNode(w)>> : w \in PlainWikilinks \cup SectionWikilinks}
    \cup {Around(w, before, after) :
             w \in {w \in PaddedWikilinks : TotalPad(w) <= MaxPad},
             before \in Texts \cup {None}, after \in TextsAfter \cup {None}}
    \cup UNION {Chains(n, after) : n \in 2..MaxLinks, after \in TextsAfter \cup {None}}

\* the most pages the allpages generator yields to process_allpages
MaxPages == 2

\* ws.ArchWiki.lang.detect_language(title): the title without its language
\* suffix "(language)" and the language, English when there is no suffix
detect_language(t) ==
    LET p == find(t, "(")
    IN  IF p > 0 /\ endswith(t, ")")
        THEN <<rstrip(SubSeq(t, 1, p - 1)), SubSeq(t, p + 1, Len(t) - 1)>>
        ELSE <<t, <<"English">>>>

\* the pages process_allpages is run on: a page in English and its
\* translation, with a link that stays and with one that changes
AllpagesTitles == {<<"B">>, <<"B", " ", "(", "d", ")">>}

AllpagesContents ==
    {StrWikicode(c) : c \in {<<WikilinkNode([title |-> <<"B">>, text |-> None])>>,
                             <<WikilinkNode([title |-> <<"B">>, text |-> <<"b">>])>>}}

Allpages == [title : AllpagesTitles, content : AllpagesContents]

\* what the generator of process_allpages yields
RECURSIVE PageLists(_)
PageLists(n) ==
    IF n = 0 THEN {<<>>}
    ELSE LET shorter == PageLists(n - 1)
         IN  shorter \cup {<<page>> \o l : page \in Allpages, l \in shorter}

\* the contents of the pages of the wiki
Contents == {StrWikicode(c) : c \in Wikicodes}

(***************************************************************************)
(* The state                                                               *)
(***************************************************************************)
VARIABLES
    interactive,    \* self.interactive
    redirects,      \* self.redirects
    displaytitles,  \* self.displaytitles
    pc,             \* the statement the script is at
    title,          \* update_page: the title of the page
    text_old,       \* the content that was fetched
    wikicode,       \* update_page: the parsed content
    pos,            \* the position in wikicode of the wikilink of the loop, from 1
    wl_title,       \* update_page: the parsed Title of that wikilink
    log,            \* what logger.warning received, with the position of the link
    text_new,       \* the content update_page returned
    edits,          \* the calls of api.edit and edit_interactive
    caller,         \* the entry point that was called: process_page or process_allpages
    generator,      \* process_allpages: the pages the generator has yet to yield
    wiki,           \* the revisions of the wiki, as the API reports them; the index is the ID
    api,            \* AllRevisionsProps: self.api
    deletedrevisions, \* AllRevisionsProps: self.deletedrevisions
    autocommit,     \* AllRevisionsProps: self.autocommit
    data,           \* AllRevisionsProps: self.data
    chunks,         \* _fetch_revisions: the chunks the loop has yet to fetch
    calls           \* what the running or the last update called: queries, timestamp, dump

\* the state of the link checker and the state of the revision cache
linkchecker == <<interactive, redirects, displaytitles, title, text_old, wikicode, pos,
                 wl_title, log, text_new, edits, caller, generator>>

cache == <<wiki, api, deletedrevisions, autocommit, data, chunks, calls>>

vars == <<pc, linkchecker, cache>>

self == [interactive |-> interactive, redirects |-> redirects,
         displaytitles |-> displaytitles]

config == <<interactive, redirects, displaytitles, caller>>

\* the wikilink of the loop
wikilink == LinkOf(wikicode[pos])

\* wikilink is assigned new contents
SetWikilink(w) == wikicode' = [wikicode EXCEPT ![pos] = WikilinkNode(w)]

\* the script link-checker.py constructs no AllRevisionsProps
NoCache ==
    /\ wiki = <<>>
    /\ api = [last_revision_id |-> 0, max_ids_per_query |-> 1]
    /\ deletedrevisions = FALSE
    /\ autocommit = FALSE
    /\ data = [badrevids |-> <<>>, revisions |-> <<>>, deletedrevisions |-> <<>>]
    /\ chunks = <<>>
    /\ calls = <<>>

\* LinkChecker(api, interactive): the tables are read from the wiki
Init ==
    /\ interactive \in BOOLEAN
    /\ redirects \in RedirectTables
    /\ displaytitles \in DisplayTables
    /\ pc = "idle"
    /\ title = <<>>
    /\ text_old = <<>>
    /\ wikicode = <<>>
    /\ pos = 0
    /\ wl_title = Title(<<>>)
    /\ log = <<>>
    /\ text_new = <<>>
    /\ edits = <<>>
    /\ caller = "none"
    /\ generator = <<>>
    /\ NoCache

\* process_page(title), up to the call of update_page
process_page ==
    /\ pc = "idle"
    /\ \E t \in Titles, content \in Contents :
          /\ title' = t
          /\ text_old' = content
    /\ pc' = "update_page"
    /\ caller' = "process_page"
    /\ UNCHANGED cache
    /\ UNCHANGED <<interactive, redirects, displaytitles, wikicode, pos, wl_title, log,
                   text_new, edits, generator>>

\* process_allpages(apfrom): the call of api.generator
process_allpages ==
    /\ pc = "idle"
    /\ generator' \in PageLists(MaxPages)
    /\ pc' = "for_page"
    /\ caller' = "process_allpages"
    /\ UNCHANGED cache
    /\ UNCHANGED <<interactive, redirects, displaytitles, title, text_old, wikicode, pos,
                   wl_title, log, text_new, edits>>

\* process_allpages: the head of the loop, up to the call of update_page
for_page ==
    /\ pc = "for_page"
    /\ IF generator = <<>>
       THEN /\ pc' = "done"
            /\ UNCHANGED <<title, text_old, generator>>
       ELSE /\ generator' = Tail(generator)
            /\ title' = Head(generator).title
            /\ IF detect_language(title')[2] # <<"English">>
               THEN /\ pc' = "for_page"
                    /\ UNCHANGED text_old
               ELSE /\ text_old' = Head(generator).content
                    /\ pc' = "update_page"
    /\ UNCHANGED cache
    /\ UNCHANGED <<config, wikicode, pos, wl_title, log, text_new, edits>>

\* update_page: wikicode = mwparserfromhell.parse(text)
parse ==
    /\ pc = "update_page"
    /\ wikicode' = Parse(text_old)
    /\ pos' = 0
    /\ pc' = "for"
    /\ UNCHANGED cache
    /\ UNCHANGED <<config, title, text_old, wl_title, log, text_new, edits, generator>>

\* what a call of api.edit or edit_interactive does: it returns, it raises
\* APIError, or it raises an exception of another class
Outcomes == {"ok", "APIError", "Exception"}

\* the control after _edit with the bug of a handler that lets APIError pass
AfterEdit_uncaught(result) ==
    IF result # "ok" THEN "raised"
    ELSE IF caller = "process_page" THEN "done" ELSE "for_page"

\* where the script is after _edit: an exception other than APIError leaves
\* _edit and its caller, which has no handler; otherwise _edit returns, to the
\* end of process_page or to the loop of process_allpages
AfterEdit(result) ==
    IF result = "Exception" THEN "raised"
    ELSE IF caller = "process_page" THEN "done" ELSE "for_page"

\* the head of the loop with the bug of lacking the skip of interlanguage links
for_wikilink_unskipped ==
    /\ pc = "for"
    /\ LET n == NextWikilink(wikicode, pos)
       IN  IF n = 0
           THEN /\ pc' = "return"
                /\ UNCHANGED <<pos, wl_title>>
           ELSE /\ pos' = n
                /\ wl_title' = Title(wikicode[n].title)
                /\ pc' = "collapse_whitespace_pipe"
    /\ UNCHANGED cache
    /\ UNCHANGED <<config, title, text_old, wikicode, log, text_new, edits, generator>>

\* update_page: the head of the loop, up to the skip of interlanguage links
for_wikilink ==
    /\ pc = "for"
    /\ LET n == NextWikilink(wikicode, pos)
       IN  IF n = 0
           THEN /\ pc' = "return"
                /\ UNCHANGED <<pos, wl_title>>
           ELSE /\ pos' = n
                /\ wl_title' = Title(wikicode[n].title)
                /\ pc' = IF wl_title'.iw \in interlanguagemap
                         THEN "for" ELSE "collapse_whitespace_pipe"
    /\ UNCHANGED cache
    /\ UNCHANGED <<config, title, text_old, wikicode, log, text_new, edits, generator>>

call_collapse_whitespace_pipe ==
    /\ pc = "collapse_whitespace_pipe"
    /\ SetWikilink(collapse_whitespace_pipe(wikilink))
    /\ pc' = "check_trivial"
    /\ UNCHANGED cache
    /\ UNCHANGED <<config, title, text_old, pos, wl_title, log, text_new, edits, generator>>

\* the call of check_trivial with the bug of a loop body that lacks the call
\* of check_relative after it
call_check_trivial_then_exact ==
    /\ pc = "check_trivial"
    /\ SetWikilink(check_trivial(wikilink))
    /\ pc' = "check_redirect_exact"
    /\ UNCHANGED cache
    /\ UNCHANGED <<config, title, text_old, pos, wl_title, log, text_new, edits, generator>>

call_check_trivial ==
    /\ pc = "check_trivial"
    /\ SetWikilink(check_trivial(wikilink))
    /\ pc' = "check_relative"
    /\ UNCHANGED cache
    /\ UNCHANGED <<config, title, text_old, pos, wl_title, log, text_new, edits, generator>>

call_check_relative ==
    /\ pc = "check_relative"
    /\ LET r == check_relative(self, wikilink, wl_title, title)
       IN  /\ SetWikilink(r.wikilink)
           /\ wl_title' = r.title
    /\ pc' = "check_redirect_exact"
    /\ UNCHANGED cache
    /\ UNCHANGED <<config, title, text_old, pos, log, text_new, edits, generator>>

call_check_redirect_exact ==
    /\ pc = "check_redirect_exact"
    /\ LET r == check_redirect_exact(self, wikilink, wl_title)
       IN  /\ SetWikilink(r.wikilink)
           /\ wl_title' = r.title
    /\ pc' = "check_redirect_capitalization"
    /\ UNCHANGED cache
    /\ UNCHANGED <<config, title, text_old, pos, log, text_new, edits, generator>>

call_check_redirect_capitalization ==
    /\ pc = "check_redirect_capitalization"
    /\ LET r == check_redirect_capitalization(self, wikilink, wl_title)
       IN  /\ SetWikilink(r.wikilink)
           /\ wl_title' = r.title
    /\ pc' = "check_displaytitle"
    /\ UNCHANGED cache
    /\ UNCHANGED <<config, title, text_old, pos, log, text_new, edits, generator>>

\* the call of check_displaytitle with the bug of entering a page that was
\* reported as missing into self.displaytitles, under its own name
call_check_displaytitle_recording ==
    /\ pc = "check_displaytitle"
    /\ LET r == check_displaytitle(self, wikilink, wl_title)
       IN  /\ SetWikilink(r.wikilink)
           /\ wl_title' = r.title
           /\ log' = log \o [i \in 1..Len(r.log) |-> [pos |-> pos, msg |-> r.log[i]]]
           /\ displaytitles' =
                 IF r.log # <<>>
                 THEN [page \in DOMAIN displaytitles \cup {fullpagename(wl_title)} |->
                          IF page \in DOMAIN displaytitles
                          THEN displaytitles[page] ELSE page]
                 ELSE displaytitles
    /\ pc' = "collapse_whitespace"
    /\ UNCHANGED cache
    /\ UNCHANGED <<interactive, redirects, caller, title, text_old, pos, text_new, edits,
                   generator>>

call_check_displaytitle ==
    /\ pc = "check_displaytitle"
    /\ LET r == check_displaytitle(self, wikilink, wl_title)
       IN  /\ SetWikilink(r.wikilink)
           /\ wl_title' = r.title
           /\ log' = log \o [i \in 1..Len(r.log) |-> [pos |-> pos, msg |-> r.log[i]]]
    /\ pc' = "collapse_whitespace"
    /\ UNCHANGED cache
    /\ UNCHANGED <<config, title, text_old, pos, text_new, edits, generator>>

\* the call of collapse_whitespace with the bug of trimming the text before
\* the link as well
call_collapse_whitespace_trimming ==
    /\ pc = "collapse_whitespace"
    /\ LET w == collapse_whitespace(wikicode, pos - 1)
       IN  IF pos > 1 /\ wikicode[pos - 1].type = "Text"
           THEN wikicode' = [wikicode EXCEPT
                                ![pos] = WikilinkNode(w),
                                ![pos - 1] = TextNode(rstrip(wikicode[pos - 1].value))]
           ELSE SetWikilink(w)
    /\ pc' = "for"
    /\ UNCHANGED cache
    /\ UNCHANGED <<config, title, text_old, pos, wl_title, log, text_new, edits, generator>>

call_collapse_whitespace ==
    /\ pc = "collapse_whitespace"
    /\ SetWikilink(collapse_whitespace(wikicode, pos - 1))
    /\ pc' = "for"
    /\ UNCHANGED cache
    /\ UNCHANGED <<config, title, text_old, pos, wl_title, log, text_new, edits, generator>>

\* update_page: return str(wikicode)
return ==
    /\ pc = "return"
    /\ text_new' = StrWikicode(wikicode)
    /\ pc' = "_edit"
    /\ UNCHANGED cache
    /\ UNCHANGED <<config, title, text_old, wikicode, pos, wl_title, log, edits, generator>>

\* _edit with the bug of lacking the comparison of the two contents
_edit_unconditional ==
    /\ pc = "_edit"
    /\ \E result \in Outcomes :
          /\ edits' = Append(edits, [call   |-> IF interactive = FALSE
                                                THEN "api.edit" ELSE "edit_interactive",
                                     title  |-> title,
                                     text   |-> text_new,
                                     result |-> result])
          /\ pc' = AfterEdit(result)
    /\ UNCHANGED cache
    /\ UNCHANGED <<config, title, text_old, wikicode, pos, wl_title, log, text_new,
                   generator>>

\* _edit(title, pageid, text_new, text_old, timestamp): the submission
\* returns, raises APIError, which _edit swallows, or raises another
\* exception, which nothing catches
_edit ==
    /\ pc = "_edit"
    /\ IF text_old # text_new
       THEN \E result \in Outcomes :
               /\ edits' = Append(edits, [call   |-> IF interactive = FALSE
                                                     THEN "api.edit" ELSE "edit_interactive",
                                          title  |-> title,
                                          text   |-> text_new,
                                          result |-> result])
               /\ pc' = AfterEdit(result)
       ELSE /\ edits' = edits
            /\ pc' = AfterEdit("ok")
    /\ UNCHANGED cache
    /\ UNCHANGED <<config, title, text_old, wikicode, pos, wl_title, log, text_new,
                   generator>>

Next ==
    \/ process_page
    \/ process_allpages
    \/ for_page
    \/ parse
    \/ for_wikilink
    \/ call_collapse_whitespace_pipe
    \/ call_check_trivial
    \/ call_check_relative
    \/ call_check_redirect_exact
    \/ call_check_redirect_capitalization
    \/ call_check_displaytitle
    \/ call_collapse_whitespace
    \/ return
    \/ _edit

Spec == Init /\ [][Next]_vars

(***************************************************************************)
(* update_page on a wiki that has the page "WPA supplicant" and the        *)
(* redirect "Wpa supplicant" to it, the page name that                     *)
(* check_redirect_capitalization and check_displaytitle test for           *)
(***************************************************************************)
WPASupplicant == <<"W", "P", "A", " ", "s", "u", "p", "p", "l", "i", "c", "a", "n", "t">>

WpaPages == {WpaSupplicant, WPASupplicant}

\* the redirect tables of that wiki: those of RedirectTables, with or
\* without the redirect from Wpa supplicant
WpaRedirectTables ==
    RedirectTables \cup
    {[page \in DOMAIN r \cup {WpaSupplicant} |->
         IF page = WpaSupplicant THEN WPASupplicant ELSE r[page]] :
       r \in {r \in RedirectTables : Cardinality(DOMAIN r) < MaxRedirects}}

\* its display-title tables: those of DisplayTables, with or without the two
\* pages
WpaDisplayTables ==
    DisplayTables \cup
    {[page \in DOMAIN d \cup WpaPages |->
         IF page \in WpaPages THEN DisplayTitle(page, style) ELSE d[page]] :
       d \in DisplayTables, style \in Styles}

\* the ways a link spells a page of that wiki
WpaSpellings ==
    WpaPages \cup
    {<<"w", "p", "a", "_", "s", "u", "p", "p", "l", "i", "c", "a", "n", "t">>,
     <<"A", " ", "b">>, <<"a", "_", "b">>, <<"B">>, <<"b">>,
     CategoryPage, <<"w", ":", "B">>}

\* the links: any target, with or without a section and a display text
WpaWikilinks ==
    {[title |-> p \o s, text |-> t] :
        p \in WpaSpellings, s \in Sections, t \in {None, <<"x">>}}

\* the contents of its pages: one link
WpaContents == {StrWikicode(<<WikilinkNode(w)>>) : w \in WpaWikilinks}

\* LinkChecker(api, interactive) on that wiki and process_page(title) up to
\* the call of update_page
InitWpa ==
    /\ interactive \in BOOLEAN
    /\ redirects \in WpaRedirectTables
    /\ displaytitles \in WpaDisplayTables
    /\ pc = "update_page"
    /\ title \in Titles
    /\ text_old \in WpaContents
    /\ wikicode = <<>>
    /\ pos = 0
    /\ wl_title = Title(<<>>)
    /\ log = <<>>
    /\ text_new = <<>>
    /\ edits = <<>>
    /\ caller = "process_page"
    /\ generator = <<>>
    /\ NoCache

\* update_page and _edit
NextWpa ==
    \/ parse
    \/ for_wikilink
    \/ call_collapse_whitespace_pipe
    \/ call_check_trivial
    \/ call_check_relative
    \/ call_check_redirect_exact
    \/ call_check_redirect_capitalization
    \/ call_check_displaytitle
    \/ call_collapse_whitespace
    \/ return
    \/ _edit

SpecWpa == InitWpa /\ [][NextWpa]_vars

(***************************************************************************)
(* The revision cache, ws.cache.AllRevisionsProps: a revision is a record  *)
(* with its revid; self.data holds the lists badrevids, revisions and      *)
(* deletedrevisions                                                        *)
(***************************************************************************)
MaxRevid == 3

MaxIdsPerQuery == 2

\* what the API reports of a revision ID: a revision, or a deleted revision
Kinds == {"revisions", "deletedrevisions"}

\* utils.ListOfDictsAttrWrapper(list, "revid")
ListOfDictsAttrWrapper(list) == [i \in 1..Len(list) |-> list[i].revid]

\* utils.bisect_insert_or_replace(list, key, data_element, index_list): the
\* element takes the place of the one with that key, or the place that keeps
\* the list sorted by key
bisect_insert_or_replace(list, key, data_element, index_list) ==
    IF \E i \in 1..Len(list) : index_list[i] = key
    THEN [i \in 1..Len(list) |-> IF index_list[i] = key THEN data_element ELSE list[i]]
    ELSE LET n == Cardinality({i \in 1..Len(list) : index_list[i] < key})
         IN  SubSeq(list, 1, n) \o <<data_element>> \o SubSeq(list, n + 1, Len(list))

\* utils.list_chunks(range(first, last + 1), size)
list_chunks(first, last, size) ==
    [c \in 1..((last - first) \div size + 1) |->
        LET start == first + (c - 1) * size
        IN  [i \in 1..(IF start + size - 1 <= last THEN size ELSE last - start + 1) |->
                start + i - 1]]

\* _get_last_revid_db()
_get_last_revid_db(d) ==
    IF d.revisions = <<>> THEN 0 ELSE d.revisions[Len(d.revisions)].revid

\* the result of the query of _fetch_revisions for the IDs of a chunk: an ID
\* that the query cannot show is a bad one, and the deleted revisions are
\* shown to a query for prop=revisions|deletedrevisions only
query(revids, prop) ==
    LET Shown(kind) ==
            [i \in 1..Len(SelectSeq(revids, LAMBDA r : r <= Len(wiki) /\ wiki[r] = kind)) |->
                [revid |-> SelectSeq(revids, LAMBDA r : r <= Len(wiki) /\ wiki[r] = kind)[i]]]
    IN  [badrevids |->
            [i \in 1..Len(SelectSeq(revids, LAMBDA r : r > Len(wiki) \/ wiki[r] \notin prop)) |->
                [revid |-> SelectSeq(revids, LAMBDA r : r > Len(wiki) \/ wiki[r] \notin prop)[i]]],
         revisions |-> IF "revisions" \in prop THEN Shown("revisions") ELSE <<>>,
         deletedrevisions |->
            IF "deletedrevisions" \in prop THEN Shown("deletedrevisions") ELSE <<>>]

\* _fetch_revisions: the loops that save the bad IDs of a result
RECURSIVE save_badrevids(_, _)
save_badrevids(list, badrevids) ==
    IF badrevids = <<>>
    THEN list
    ELSE save_badrevids(bisect_insert_or_replace(list, Head(badrevids).revid,
                                                 Head(badrevids).revid, list),
                        Tail(badrevids))

\* _fetch_revisions: the loops that save the revisions, or the deleted
\* revisions, of a result
RECURSIVE save_revisions(_, _)
save_revisions(list, revisions) ==
    IF revisions = <<>>
    THEN list
    ELSE save_revisions(bisect_insert_or_replace(list, Head(revisions).revid,
                                                 Head(revisions),
                                                 ListOfDictsAttrWrapper(list)),
                        Tail(revisions))

\* AllRevisionsProps(api, cache_dir, autocommit) and init(), up to its call of
\* update; the wiki has its first revision
InitCache ==
    /\ interactive = FALSE
    /\ redirects = <<>>
    /\ displaytitles = <<>>
    /\ title = <<>>
    /\ text_old = <<>>
    /\ wikicode = <<>>
    /\ pos = 0
    /\ wl_title = Title(<<>>)
    /\ log = <<>>
    /\ text_new = <<>>
    /\ edits = <<>>
    /\ caller = "none"
    /\ generator = <<>>
    /\ pc = "ready"
    /\ wiki = <<"revisions">>
    /\ api \in [last_revision_id : {1}, max_ids_per_query : 1..MaxIdsPerQuery]
    /\ deletedrevisions \in BOOLEAN
    /\ autocommit \in BOOLEAN
    /\ data = [badrevids |-> <<>>, revisions |-> <<>>, deletedrevisions |-> <<>>]
    /\ chunks = <<>>
    /\ calls = <<>>

\* a revision is saved on the wiki: api.last_revision_id is its ID
save ==
    /\ pc = "ready"
    /\ Len(wiki) < MaxRevid
    /\ wiki' = Append(wiki, "revisions")
    /\ api' = [api EXCEPT !.last_revision_id = Len(wiki')]
    /\ UNCHANGED <<pc, linkchecker, deletedrevisions, autocommit, data, chunks, calls>>

\* a revision of the wiki is deleted
delete ==
    /\ pc = "ready"
    /\ \E r \in 1..Len(wiki) :
          /\ wiki[r] = "revisions"
          /\ wiki' = [wiki EXCEPT ![r] = "deletedrevisions"]
    /\ UNCHANGED <<pc, linkchecker, api, deletedrevisions, autocommit, data, chunks, calls>>

\* update(), up to the call of _fetch_revisions and the head of its loop
update ==
    /\ pc = "ready"
    /\ LET firstrevid == _get_last_revid_db(data) + 1
           lastrevid == api.last_revision_id
       IN  IF lastrevid >= firstrevid
           THEN /\ chunks' = list_chunks(firstrevid, lastrevid, api.max_ids_per_query)
                /\ pc' = "_fetch_revisions"
           ELSE /\ chunks' = <<>>
                /\ pc' = "ready"
    /\ calls' = <<>>
    /\ UNCHANGED <<linkchecker, wiki, api, deletedrevisions, autocommit, data>>

\* _fetch_revisions: the loop over the chunks, one query each
_fetch_revisions ==
    /\ pc = "_fetch_revisions"
    /\ IF chunks = <<>>
       THEN /\ pc' = "_update_timestamp"
            /\ UNCHANGED <<data, chunks, calls>>
       ELSE LET chunk == Head(chunks)
                prop == IF deletedrevisions = TRUE
                        THEN {"revisions", "deletedrevisions"} ELSE {"revisions"}
                result == query(chunk, prop)
            IN  /\ calls' = Append(calls, [call |-> "query", revids |-> chunk])
                /\ data' = [badrevids |-> save_badrevids(data.badrevids, result.badrevids),
                            revisions |-> save_revisions(data.revisions, result.revisions),
                            deletedrevisions |->
                                save_revisions(data.deletedrevisions,
                                               result.deletedrevisions)]
                /\ chunks' = Tail(chunks)
                /\ pc' = "_fetch_revisions"
    /\ UNCHANGED <<linkchecker, wiki, api, deletedrevisions, autocommit>>

\* update: self._update_timestamp()
_update_timestamp ==
    /\ pc = "_update_timestamp"
    /\ calls' = Append(calls, [call |-> "_update_timestamp", revids |-> <<>>])
    /\ pc' = IF autocommit = TRUE THEN "dump" ELSE "ready"
    /\ UNCHANGED <<linkchecker, wiki, api, deletedrevisions, autocommit, data, chunks>>

\* update: self.dump()
dump ==
    /\ pc = "dump"
    /\ calls' = Append(calls, [call |-> "dump", revids |-> <<>>])
    /\ pc' = "ready"
    /\ UNCHANGED <<linkchecker, wiki, api, deletedrevisions, autocommit, data, chunks>>

NextCache ==
    \/ save
    \/ delete
    \/ update
    \/ _fetch_revisions
    \/ _update_timestamp
    \/ dump

SpecCache == InitCache /\ [][NextCache]_vars

(***************************************************************************)
(* The claims                                                              *)
(***************************************************************************)
\* the node at position i of the content as it was fetched
Fetched(i) == Parse(text_old)[i]

\* the positions of the Wikilink nodes of a Wikicode
WikilinkPositions(nodes) == {i \in 1..Len(nodes) : nodes[i].type = "Wikilink"}

\* the statements of the loop body of update_page
RuleSteps ==
    {"collapse_whitespace_pipe", "check_trivial", "check_relative",
     "check_redirect_exact", "check_redirect_capitalization", "check_displaytitle",
     "collapse_whitespace"}

\* C1: update_page is idempotent: run again on the content it returned (same
\* title, same tables, same mode), it returns that content unchanged.
C1_Idempotent ==
    pc = "_edit" => update_page(self, title, text_new).text = text_new

\* C2: an edit is submitted (api.edit or edit_interactive) only by _edit, one
\* call at a time, and only if the content update_page returned for the
\* fetched content differs from the fetched content.
C2_NoOpSafety ==
    [][edits' # edits =>
          /\ pc = "_edit"
          /\ text_new = update_page(self, title, text_old).text
          /\ text_new # text_old
          /\ Len(edits') = Len(edits) + 1
          /\ edits'[Len(edits')].text = text_new]_vars

\* C2, witness: a page with a link went through update_page and _edit, the
\* content came back unchanged and no edit was submitted
C2_Witness ==
    /\ pc \in {"done", "for_page"}
    /\ WikilinkPositions(wikicode) # {}
    /\ text_new = text_old
    /\ edits = <<>>

\* what a node displays once link syntax is stripped: a link displays its
\* display text, or its target when it has none
Displayed(node) ==
    IF node.type = "Text" THEN node.value
    ELSE IF node.text # None THEN node.text ELSE node.title

RECURSIVE PlainText(_)
PlainText(nodes) ==
    IF nodes = <<>> THEN <<>> ELSE Displayed(Head(nodes)) \o PlainText(Tail(nodes))

\* C3, as claimed: the plain text obtained by stripping link syntax is the
\* same for the input and for the output of update_page.
C3_MeaningPreserved ==
    pc = "_edit" => PlainText(Parse(text_new)) = PlainText(Parse(text_old))

\* C3, amended: the output has the nodes of the input, in the same order;
\* the text outside links is identical, and a link that has display text in
\* the output displays the display text it had in the input, up to leading
\* and trailing whitespace.  (A link without display text in the output may
\* display another string than in the input.)
C3_MeaningPreservedOutsideTargets ==
    pc = "_edit" =>
        LET old == Parse(text_old)
            new == Parse(text_new)
        IN  /\ Len(new) = Len(old)
            /\ \A i \in 1..Len(old) :
                  /\ new[i].type = old[i].type
                  /\ new[i].type = "Text" => new[i].value = old[i].value
                  /\ new[i].type = "Wikilink" /\ new[i].text # None =>
                        /\ old[i].text # None
                        /\ strip(new[i].text) = strip(old[i].text)

\* C3, witness: update_page rewrote a link that kept its display text, and a
\* text outside it
C3_Witness ==
    /\ pc = "_edit"
    /\ text_new # text_old
    /\ \E i \in WikilinkPositions(wikicode) :
          wikicode[i].text # None /\ wikicode[i].title # Fetched(i).title
    /\ \E i \in 1..Len(wikicode) : wikicode[i].type = "Text"

\* check_redirect_exact collapses the link: whether it should, for a link
\* with display text and no section fragment on either side
ResolveEqual(w) ==
    LET target1 == Get(redirects, fullpagename(Title(w.title)))
        target2 == Get(redirects, fullpagename(Title(w.text)))
    IN  \/ target1 # None /\ target2 # None /\ target1 = target2
        \/ target1 # None /\ target2 = None /\ target1 = fullpagename(Title(w.text))
        \/ target1 = None /\ target2 # None /\ target2 = fullpagename(Title(w.title))

\* C4: for a link with display text where neither the target nor the display
\* text has a section fragment, check_redirect_exact makes the display text
\* the target, drops the display text and re-parses the Title if both resolve
\* in the redirect table to equal targets or exactly one resolves and its
\* target is the other's full page name; otherwise it changes nothing.
C4_RedirectExact ==
    [][/\ pc = "check_redirect_exact"
       /\ wikilink.text # None
       /\ ~Truthy(Title(wikilink.title).sectionname)
       /\ ~Truthy(Title(wikilink.text).sectionname)
       => IF ResolveEqual(wikilink)
          THEN /\ wikilink' = [title |-> wikilink.text, text |-> None]
               /\ wl_title' = Title(wikilink.text)
          ELSE /\ wikilink' = wikilink
               /\ wl_title' = wl_title]_vars

\* C4, witness: check_redirect_exact has collapsed a link whose target and
\* display text are two redirects to the same page
C4_Witness ==
    /\ pc = "check_redirect_capitalization"
    /\ wikilink.text = None
    /\ Fetched(pos).text # None
    /\ wikilink.title = Fetched(pos).text
    /\ LET t1 == fullpagename(Title(Fetched(pos).title))
           t2 == fullpagename(Title(Fetched(pos).text))
       IN  /\ t1 # t2
           /\ t1 \in DOMAIN redirects
           /\ t2 \in DOMAIN redirects

C6_Trivial ==
    [][pc = "check_trivial" =>
          IF wikilink.text # None
             /\ canonicalize(wikilink.title) = canonicalize(wikilink.text)
          THEN wikilink' = [title |-> wikilink.text, text |-> None]
          ELSE wikilink' = wikilink]_vars

\* C6, witness: check_trivial has dropped a display text that is spelled
\* otherwise than the target
C6_Witness ==
    /\ pc = "check_relative"
    /\ Fetched(pos).text # None
    /\ wikilink.text = None
    /\ wikilink.title # Fetched(pos).title

\* the warnings logged for the link at position i
Warnings(i) == {k \in 1..Len(log) : log[k].pos = i}

\* C7, as claimed: in interactive mode every link update_page processes whose
\* target's full page name is absent from the display-title table gets
\* exactly one warning and is not mutated during the pass.
C7_BrokenLinkWarned ==
    pc = "_edit" /\ interactive =>
        \A i \in WikilinkPositions(wikicode) :
            /\ Title(Fetched(i).title).iw \notin interlanguagemap
            /\ fullpagename(Title(Fetched(i).title)) \notin DOMAIN displaytitles
            => Cardinality(Warnings(i)) = 1 /\ wikicode[i] = Fetched(i)

\* C7, amended: in interactive mode, for every link that reaches
\* check_displaytitle without display text and whose Title has no interwiki
\* prefix and a non-empty full page name that is absent from the
\* display-title table, check_displaytitle reports exactly one warning, which
\* names the link, and mutates neither the link nor the Title.
C7_BrokenLinkReported ==
    [][/\ pc = "check_displaytitle"
       /\ interactive
       /\ wikilink.text = None
       /\ ~Truthy(wl_title.iw)
       /\ fullpagename(wl_title) # <<>>
       /\ fullpagename(wl_title) \notin DOMAIN displaytitles
       => /\ log' = Append(log, [pos |-> pos, msg |-> StrWikilink(wikilink)])
          /\ wikilink' = wikilink
          /\ wl_title' = wl_title]_vars

\* C7, witness: check_displaytitle has reported a link to a page that the
\* display-title table lacks, the other pages being listed
C7_Witness ==
    /\ pc = "collapse_whitespace"
    /\ interactive
    /\ DOMAIN displaytitles # {}
    /\ Cardinality(Warnings(pos)) = 1
    /\ log[Len(log)].msg = StrWikilink(wikilink)

\* C8: check_displaytitle leaves the target (and the display text) of a link
\* whose parsed namespace is the category namespace as it is, whatever the
\* display-title table holds and in either mode.
C8_CategoryUntouched ==
    [][pc = "check_displaytitle" /\ wl_title.namespace = Category =>
          wikilink' = wikilink /\ wl_title' = wl_title]_vars

\* C8, witness: in interactive mode check_displaytitle has passed a link to a
\* listed category page whose display title is spelled otherwise than the
\* target
C8_Witness ==
    /\ pc = "collapse_whitespace"
    /\ interactive
    /\ wl_title.namespace = Category
    /\ wikilink.text = None
    /\ fullpagename(wl_title) \in DOMAIN displaytitles
    /\ SliceFrom1(displaytitles[fullpagename(wl_title)]) # SliceFrom1(wikilink.title)

\* C9: a link with an interlanguage prefix is skipped at the head of the
\* loop: no rule and no whitespace collapse is applied to it, the loop goes
\* on with the next link, and the link is in the end as it was fetched.
C9_InterlanguageSkipped ==
    [][/\ pc = "for"
          => LET n == NextWikilink(wikicode, pos)
             IN  n # 0 /\ Title(wikicode[n].title).iw \in interlanguagemap
                 => /\ pc' = "for"
                    /\ pos' = n
                    /\ wikicode' = wikicode
                    /\ log' = log
       /\ pc' = "_edit"
          => \A i \in WikilinkPositions(wikicode') :
                Title(Fetched(i).title).iw \in interlanguagemap
                => wikicode'[i] = Fetched(i)]_vars

\* C9, witness: the loop is at a link that follows an interlanguage link
\* whose display text has leading whitespace
C9_Witness ==
    /\ pc = "collapse_whitespace_pipe"
    /\ \E i \in WikilinkPositions(wikicode) :
          /\ i < pos
          /\ Title(wikicode[i].title).iw \in interlanguagemap
          /\ wikicode[i].text # None
          /\ lstrip(wikicode[i].text) # wikicode[i].text

\* self with the other mode
OtherMode == [self EXCEPT !.interactive = ~interactive]

\* C10: when interactive is false, check_redirect_capitalization and
\* check_displaytitle mutate nothing and report nothing, and update_page
\* returns the same content whatever the display-title table; check_relative
\* and check_redirect_exact do the same in both modes.
C10_ModeGating ==
    [][/\ pc \in {"check_redirect_capitalization", "check_displaytitle"} /\ ~interactive
          => wikicode' = wikicode /\ wl_title' = wl_title /\ log' = log
       /\ pc = "return" /\ ~interactive
          => \A d \in DisplayTables :
                update_page([self EXCEPT !.displaytitles = d], title, text_old).text
                    = text_new'
       /\ pc = "check_relative"
          => check_relative(OtherMode, wikilink, wl_title, title)
                 = check_relative(self, wikilink, wl_title, title)
       /\ pc = "check_redirect_exact"
          => check_redirect_exact(OtherMode, wikilink, wl_title)
                 = check_redirect_exact(self, wikilink, wl_title)]_vars

\* C10, witness: in non-interactive mode check_displaytitle has passed a
\* link that it rewrites in interactive mode
C10_Witness ==
    /\ pc = "collapse_whitespace"
    /\ ~interactive
    /\ check_displaytitle(OtherMode, wikilink, wl_title).wikilink # wikilink

\* the statement that follows a statement of the loop body
Successor(step) ==
    CASE step = "collapse_whitespace_pipe"      -> "check_trivial"
      [] step = "check_trivial"                 -> "check_relative"
      [] step = "check_relative"                -> "check_redirect_exact"
      [] step = "check_redirect_exact"          -> "check_redirect_capitalization"
      [] step = "check_redirect_capitalization" -> "check_displaytitle"
      [] step = "check_displaytitle"            -> "collapse_whitespace"
      [] step = "collapse_whitespace"           -> "for"

\* C11: the steps run in the order collapse-whitespace-pipe, trivial,
\* relative, redirect-exact, redirect-capitalization, display-title, outer
\* whitespace collapse, each on the link the loop is at; the loop takes the
\* links in document order, none twice and none left out, and takes the next
\* link only after the outer whitespace collapse of the one before; the
\* pipeline starts on a link exactly when it is not an interlanguage link.
C11_PipelineOrder ==
    [][/\ pc \in RuleSteps => pc' = Successor(pc) /\ pos' = pos
       /\ pc' \in RuleSteps =>
             \/ pc \in RuleSteps
             \/ pc = "for" /\ pc' = "collapse_whitespace_pipe"
       /\ pc = "for" =>
             LET later == {i \in WikilinkPositions(wikicode) : i > pos}
             IN  IF later = {}
                 THEN pc' = "return"
                 ELSE /\ pos' \in later
                      /\ \A i \in later : pos' <= i
                      /\ pc' = IF Title(wikicode[pos'].title).iw \in interlanguagemap
                               THEN "for" ELSE "collapse_whitespace_pipe"]_vars

\* C11, witness: the pipeline starts on the second link of a page after the
\* outer whitespace collapse of the first, which the pipeline has rewritten
C11_Witness ==
    /\ pc = "collapse_whitespace_pipe"
    /\ \E i \in WikilinkPositions(wikicode) :
          /\ i < pos
          /\ Title(Fetched(i).title).iw \notin interlanguagemap
          /\ wikicode[i] # Fetched(i)

\* the submission that the step changing edits to edits' has made
Submitted == edits'[Len(edits')]

\* C12: an APIError of the edit submission stays in _edit: process_page then
\* returns as after a successful edit, and process_allpages goes on with its
\* loop, where every page the generator still has to yield is taken in turn
\* (update_page runs on every English one) until none is left.
C12_EditConflictIsolated ==
    [][/\ pc = "_edit" /\ edits' # edits /\ Submitted.result = "APIError" =>
             /\ caller = "process_page" => pc' = "done"
             /\ caller = "process_allpages" => pc' = "for_page"
             /\ generator' = generator
       /\ pc = "for_page" /\ generator # <<>> =>
             /\ generator' = Tail(generator)
             /\ title' = Head(generator).title
             /\ IF detect_language(Head(generator).title)[2] = <<"English">>
                THEN pc' = "update_page" /\ text_old' = Head(generator).content
                ELSE pc' = "for_page"
       /\ pc = "for_page" /\ pc' = "done" => generator = <<>>]_vars

\* C12, witness: process_allpages has submitted the edit of a page after the
\* edit of the page before it failed with APIError
C12_Witness ==
    /\ caller = "process_allpages"
    /\ Len(edits) = 2
    /\ edits[1].result = "APIError"

\* C13, as claimed: in process_allpages no outcome of the edit submission of
\* one page aborts the batch: while the generator has pages yet to yield,
\* the loop goes on with them after _edit.
C13_BatchNeverAborted ==
    [][pc = "_edit" /\ caller = "process_allpages" /\ generator # <<>> =>
          pc' = "for_page" /\ generator' = generator]_vars

WithSection(page, t) ==
    IF Truthy(t.sectionname) THEN page \o <<"#">> \o t.sectionname ELSE page

\* the redirect-table entry of the Title's full page name differs from that
\* full page name only by letter case
CaseRedirect ==
    /\ fullpagename(wl_title) \in DOMAIN redirects
    /\ lower(redirects[fullpagename(wl_title)]) = lower(fullpagename(wl_title))

DiffersBeyondFirstCase(a, b) ==
    ~ \/ a = b
      \/ /\ a # <<>> /\ b # <<>>
         /\ lower(<<a[1]>>) = lower(<<b[1]>>)
         /\ Tail(a) = Tail(b)

\* check_displaytitle is at a link that passes its skip conditions and whose
\* page the display-title table lists
Listed ==
    /\ pc = "check_displaytitle"
    /\ interactive
    /\ wikilink.text = None
    /\ ~Truthy(wl_title.iw)
    /\ fullpagename(wl_title) # <<>>
    /\ fullpagename(wl_title) \in DOMAIN displaytitles
    /\ wl_title.namespace # Category

C17_TrailingCollapsed ==
    [][/\ pc = "collapse_whitespace"
       /\ pos < Len(wikicode)
       /\ wikicode[pos + 1].type = "Text"
       /\ startswith(wikicode[pos + 1].value, " ")
       => IF wikilink.text # None
          THEN wikilink'.text = rstrip(wikilink.text)
          ELSE wikilink'.title = rstrip(wikilink'.title)]_vars

\* check_displaytitle is at a link that it reports as broken
Broken ==
    /\ pc = "check_displaytitle"
    /\ interactive
    /\ wikilink.text = None
    /\ ~Truthy(wl_title.iw)
    /\ fullpagename(wl_title) # <<>>
    /\ fullpagename(wl_title) \notin DOMAIN displaytitles

\* C18, as claimed: check_displaytitle reports a warning only in interactive
\* mode and only for a link without display text and interwiki prefix whose
\* Title has a non-empty full page name and is not in the category namespace.
C18_ReportAfterSkips ==
    [][pc = "check_displaytitle" /\ log' # log =>
          /\ interactive
          /\ wikilink.text = None
          /\ ~Truthy(wl_title.iw)
          /\ fullpagename(wl_title) # <<>>
          /\ wl_title.namespace # Category]_vars

\* C18, amended: check_displaytitle reports a warning exactly for a link
\* that, in interactive mode, has no display text and no interwiki prefix and
\* whose Title has a non-empty full page name that the display-title table
\* lacks, in the category namespace as in any other: the test of the
\* category namespace comes after the report.
C18_ReportBeforeCategory ==
    [][pc = "check_displaytitle" => (log' # log <=> Broken)]_vars

\* C18, witness: check_displaytitle has reported a link to a category page
\* that the display-title table lacks, the pages of the main namespace being
\* listed
C18_Witness ==
    /\ pc = "collapse_whitespace"
    /\ DOMAIN displaytitles # {}
    /\ wl_title.namespace = Category
    /\ Warnings(pos) # {}

\* C19: update_page changes no node but the link the loop is at, which stays
\* a link; the Wikicode keeps its number of nodes and their order, and when
\* update_page returns every node that is not a link is as it was parsed.
C19_NonLinkFramed ==
    [][/\ pc \in RuleSteps \cup {"for", "return"} =>
             /\ Len(wikicode') = Len(wikicode)
             /\ \A i \in 1..Len(wikicode) :
                   /\ wikicode'[i].type = wikicode[i].type
                   /\ wikicode'[i] # wikicode[i] =>
                         i = pos /\ wikicode[i].type = "Wikilink" /\ pc \in RuleSteps
       /\ pc = "return" =>
             /\ Len(wikicode) = Len(Parse(text_old))
             /\ \A i \in 1..Len(wikicode) :
                   wikicode[i].type = "Text" => wikicode[i] = Fetched(i)]_vars

\* C19, witness: update_page returns a page where collapse_whitespace has
\* stripped the target of a link on account of the text before it
C19_Witness ==
    /\ pc = "return"
    /\ \E i \in WikilinkPositions(wikicode) :
          /\ i > 1
          /\ wikicode[i - 1].type = "Text"
          /\ endswith(wikicode[i - 1].value, " ")
          /\ Fetched(i).text = None
          /\ wikicode[i].title = lstrip(Fetched(i).title)
          /\ wikicode[i].title # Fetched(i).title

\* C20: when update_page returns, in either mode, the display text of every
\* link is absent or is the display text the link was parsed with, less
\* leading whitespace, trailing whitespace or both; and check_displaytitle
\* changes nothing of a link that has display text.
C20_AlternativeTextKept ==
    [][/\ pc = "return" =>
             \A i \in WikilinkPositions(wikicode) :
                wikicode[i].text # None =>
                   /\ Fetched(i).text # None
                   /\ wikicode[i].text \in
                         {Fetched(i).text, lstrip(Fetched(i).text),
                          rstrip(Fetched(i).text), strip(Fetched(i).text)}
       /\ pc = "check_displaytitle" /\ wikilink.text # None =>
             wikilink' = wikilink /\ wl_title' = wl_title /\ log' = log]_vars

\* C20, witness: in interactive mode check_displaytitle has passed a link
\* whose display text lost its leading whitespace and whose target it
\* rewrites when the display text is taken away
C20_Witness ==
    /\ pc = "collapse_whitespace"
    /\ interactive
    /\ wikilink.text # None
    /\ wikilink.text # Fetched(pos).text
    /\ check_displaytitle(self, [wikilink EXCEPT !.text = None], wl_title).wikilink
          # [wikilink EXCEPT !.text = None]

\* the rules that are passed the parsed Title
TitleRules ==
    {"check_relative", "check_redirect_exact", "check_redirect_capitalization",
     "check_displaytitle"}

\* C21, as claimed: at the entry of check_relative, check_redirect_exact,
\* check_redirect_capitalization and check_displaytitle the Title passed to
\* the rule has the full page name and the section of a fresh parse of the
\* target the link has then.
C21_TitleInSync ==
    pc \in TitleRules =>
        /\ fullpagename(wl_title) = fullpagename(Title(wikilink.title))
        /\ wl_title.sectionname = Title(wikilink.title).sectionname

\* the fragment of a target: what follows the first "#", None without "#"
Fragment(target) ==
    LET h == find(target, "#")
    IN  IF h = 0 THEN None ELSE SubSeq(target, h + 1, Len(target))

\* a fragment without the whitespace around it, with blanks for underscores
Anchor(fragment) ==
    IF fragment = None THEN None ELSE strip(ReplaceUnderscores(fragment))

\* check_redirect_exact does nothing where the target or the display text
\* has a section
ExactSkipsSections ==
    /\ pc = "check_redirect_exact"
    /\ wikilink.text # None
    /\ Truthy(Fragment(wikilink.title)) \/ Truthy(Fragment(wikilink.text))
    => wikilink' = wikilink /\ wl_title' = wl_title

\* C22, as claimed: when update_page returns, the target of every link that
\* was parsed with a non-empty section has that very section; and
\* check_redirect_exact does nothing where the target or the display text
\* has a section.
C22_SectionKept ==
    [][/\ pc = "return" =>
             \A i \in WikilinkPositions(wikicode) :
                Truthy(Fragment(Fetched(i).title)) =>
                   Fragment(wikicode[i].title) = Fragment(Fetched(i).title)
       /\ ExactSkipsSections]_vars

\* C22, amended: when update_page returns, the target of every link that was
\* parsed with a section that is not blank has that section up to the
\* whitespace around it and the interchange of underscores and blanks; and
\* check_redirect_exact does nothing where the target or the display text
\* has a section.
C22_SectionKeptUpToSpelling ==
    [][/\ pc = "return" =>
             \A i \in WikilinkPositions(wikicode) :
                Truthy(Anchor(Fragment(Fetched(i).title))) =>
                   Anchor(Fragment(wikicode[i].title)) = Anchor(Fragment(Fetched(i).title))
       /\ ExactSkipsSections]_vars

\* C22, witness: update_page returns a link with a section whose target was
\* rewritten by check_displaytitle
C22_Witness ==
    /\ pc = "return"
    /\ interactive
    /\ \E i \in WikilinkPositions(wikicode) :
          /\ Truthy(Fragment(Fetched(i).title))
          /\ Fetched(i).text = None
          /\ fullpagename(Title(wikicode[i].title)) # <<>>
          /\ wikicode[i].title # Fetched(i).title
          /\ strip(wikicode[i].title) # strip(Fetched(i).title)

\* the link the loop is at is a link to a section of the page it is on, and
\* the Title is the parse of its target
Relative ==
    /\ fullpagename(wl_title) = <<>>
    /\ Truthy(wl_title.sectionname)
    /\ wikilink.title = <<"#">> \o wl_title.sectionname

\* C23: a link that check_relative has left in the form "#section" is not
\* changed by check_redirect_exact, check_redirect_capitalization and
\* check_displaytitle, neither its Title, and gets no warning, in either
\* mode.
C23_RelativeSettled ==
    [][/\ pc \in {"check_redirect_exact", "check_redirect_capitalization",
                  "check_displaytitle"}
       /\ Relative
       => /\ wikilink' = wikilink
          /\ wl_title' = wl_title
          /\ log' = log]_vars

\* C23, witness: in interactive mode a link to another spelling of the page,
\* which check_relative rewrote, has passed check_displaytitle
C23_Witness ==
    /\ pc = "collapse_whitespace"
    /\ interactive
    /\ Relative
    /\ wikilink.text = None
    /\ fullpagename(Title(Fetched(pos).title)) # <<>>
    /\ DOMAIN displaytitles # {}

\* the IDs of the revisions that the cache database holds
StoredRevids ==
    {data.revisions[i].revid : i \in 1..Len(data.revisions)} \cup
    {data.deletedrevisions[i].revid : i \in 1..Len(data.deletedrevisions)}

Highest(ids) == CHOOSE m \in ids : \A x \in ids : x <= m

\* the IDs of the chunks, in the order of the queries
RECURSIVE Flatten(_)
Flatten(seqs) == IF seqs = <<>> THEN <<>> ELSE Head(seqs) \o Flatten(Tail(seqs))

\* C24: between the calls of update, _get_last_revid_db returns the highest
\* ID of the revisions that the cache database holds, or 0 when it holds
\* none; a call of update fetches nothing (and then calls neither
\* _update_timestamp nor dump) when every revision up to
\* api.last_revision_id is held, and otherwise fetches the IDs from that
\* value + 1 up to api.last_revision_id, each once and in order
C24_HighWaterMark ==
    /\ pc = "ready" => _get_last_revid_db(data) = Highest(StoredRevids \cup {0})
    /\ pc = "_fetch_revisions" /\ calls = <<>> =>
          /\ \E r \in 1..api.last_revision_id : r \notin StoredRevids
          /\ Flatten(chunks) =
                [i \in 1..(api.last_revision_id - _get_last_revid_db(data)) |->
                    _get_last_revid_db(data) + i]
====
